---------------------------- MODULE Spec2Model ----------------------------
(***************************************************************************)
(* vectorbt.utils: the class decorators of magic_decorators.py that add    *)
(* magic methods to a class, and the frame loop of image_.save_animation.  *)
(*                                                                         *)
(* Spec      the decorators: a modifier is built by                        *)
(*           attach_binary_magic_methods / attach_unary_magic_methods and  *)
(*           applied to one of two classes (wrapper).                      *)
(* SpecCall  the decorators on one class, and calls of the methods they    *)
(*           install on its instances.                                     *)
(* SpecAnim  save_animation: the loop over range(0, len(index)-delta,step) *)
(***************************************************************************)
EXTENDS Integers, Sequences, FiniteSets, TLC

VARIABLES
    binary_magic_config,  \* module global, magic_decorators.py:15
    unary_magic_config,   \* module global, magic_decorators.py:97
    classes,              \* class name -> the class's attribute dictionary
    modifier,             \* the wrapper returned by the last attach_* call, not yet applied
    last,                 \* the last call made and what it returned or raised
    pc,                   \* save_animation: position in the function
    index,                \* save_animation: the index argument
    delta,                \* save_animation: the delta argument, then the local
    step,                 \* save_animation: the step argument
    todo,                 \* save_animation: what is left of the range the loop iterates
    frames,               \* save_animation: the data appended to the writer
    error                 \* save_animation: the exception that ended the call

magicVars == <<binary_magic_config, unary_magic_config, classes, modifier, last>>
animVars == <<pc, index, delta, step, todo, frames, error>>
vars == <<binary_magic_config, unary_magic_config, classes, modifier, last,
          pc, index, delta, step, todo, frames, error>>

(***************************************************************************)
(* Bounds of the model.                                                    *)
(***************************************************************************)
\* operands of an invoked method have values in -MaxOperand .. MaxOperand
MaxOperand == 1
\* save_animation: len(index) is at most MaxLen
MaxLen == 4
\* save_animation: step is at most MaxStep
MaxStep == 2

(***************************************************************************)
(* Values.  A number is a record: an integer, a boolean (n is 0 or 1) or a *)
(* float, kept as the reduced fraction n/d with d > 0; d = 0 is inf (n = 1)*)
(* -inf (n = -1) or nan (n = 0).  The outcome of a call is a record of the *)
(* exception raised ("none" when it returns) and the value returned.       *)
(***************************************************************************)
Int_(x) == [t |-> "int", n |-> x, d |-> 1]
Bool_(b) == [t |-> "bool", n |-> IF b THEN 1 ELSE 0, d |-> 1]
NoNum == [t |-> "none", n |-> 0, d |-> 0]

Abs(x) == IF x < 0 THEN -x ELSE x
Sign(x) == IF x < 0 THEN -1 ELSE IF x > 0 THEN 1 ELSE 0

RECURSIVE Gcd(_, _)
Gcd(a, b) == IF b = 0 THEN a ELSE Gcd(b, a % b)

Float_(x, y) ==
    IF y = 0 THEN [t |-> "float", n |-> Sign(x), d |-> 0]
    ELSE LET g == Gcd(Abs(x), Abs(y))
         IN [t |-> "float", n |-> Sign(y) * (x \div g), d |-> Abs(y) \div g]

Returns(v) == [exc |-> "none", val |-> v]
Raises(e) == [exc |-> e, val |-> NoNum]

(***************************************************************************)
(* The NumPy ufuncs the two configs name, on integer operands.             *)
(***************************************************************************)
\* np.floor_divide: rounds to minus infinity; a zero divisor gives 0 (and a warning)
FloorDivide(x, y) ==
    IF y = 0 THEN 0 ELSE IF y > 0 THEN x \div y ELSE (-x) \div (-y)

\* np.mod: the result has the divisor's sign; a zero divisor gives 0 (and a warning)
Mod(x, y) ==
    IF y = 0 THEN 0 ELSE IF y > 0 THEN x % y ELSE -((-x) % (-y))

RECURSIVE Power(_, _)
Power(x, y) == IF y = 0 THEN 1 ELSE x * Power(x, y - 1)

\* Python's bitwise operators on integers of any sign (two's complement)
RECURSIVE BitOp(_, _, _)
BitOp(op, x, y) ==
    IF x \in {0, -1} /\ y \in {0, -1}
    THEN LET a == (x = -1)
             b == (y = -1)
             r == CASE op = "bitwise_and" -> a /\ b
                    [] op = "bitwise_or" -> a \/ b
                    [] OTHER -> a # b
         IN IF r THEN -1 ELSE 0
    ELSE LET a == (x % 2 = 1)
             b == (y % 2 = 1)
             r == CASE op = "bitwise_and" -> a /\ b
                    [] op = "bitwise_or" -> a \/ b
                    [] OTHER -> a # b
         IN (IF r THEN 1 ELSE 0) + 2 * BitOp(op, x \div 2, y \div 2)

BinaryUfuncs ==
    {"equal", "not_equal", "less", "greater", "less_equal", "greater_equal",
     "add", "subtract", "multiply", "power", "mod", "floor_divide", "true_divide",
     "bitwise_and", "bitwise_or", "bitwise_xor"}
UnaryUfuncs == {"negative", "positive", "absolute", "invert"}

\* np.<u>(x, y)
Ufunc2(u, x, y) ==
    CASE u = "equal" -> Returns(Bool_(x = y))
      [] u = "not_equal" -> Returns(Bool_(x # y))
      [] u = "less" -> Returns(Bool_(x < y))
      [] u = "greater" -> Returns(Bool_(x > y))
      [] u = "less_equal" -> Returns(Bool_(x <= y))
      [] u = "greater_equal" -> Returns(Bool_(x >= y))
      [] u = "add" -> Returns(Int_(x + y))
      [] u = "subtract" -> Returns(Int_(x - y))
      [] u = "multiply" -> Returns(Int_(x * y))
      [] u = "power" -> IF y < 0 THEN Raises("ValueError") ELSE Returns(Int_(Power(x, y)))
      [] u = "mod" -> Returns(Int_(Mod(x, y)))
      [] u = "floor_divide" -> Returns(Int_(FloorDivide(x, y)))
      [] u = "true_divide" -> Returns(Float_(x, y))
      [] u \in {"bitwise_and", "bitwise_or", "bitwise_xor"} -> Returns(Int_(BitOp(u, x, y)))

\* np.<u>(x)
Ufunc1(u, x) ==
    CASE u = "negative" -> Returns(Int_(-x))
      [] u = "positive" -> Returns(Int_(x))
      [] u = "absolute" -> Returns(Int_(Abs(x)))
      [] u = "invert" -> Returns(Int_(-x - 1))

\* np.<u>(*args): a ufunc called with the wrong number of operands raises TypeError
Ufunc(u, args) ==
    IF u \in BinaryUfuncs
    THEN IF Len(args) = 2 THEN Ufunc2(u, args[1], args[2]) ELSE Raises("TypeError")
    ELSE IF Len(args) = 1 THEN Ufunc1(u, args[1]) ELSE Raises("TypeError")


(***************************************************************************)
(* Objects: an instance of a class holding a number in .value (the         *)
(* Wrapped(value) of the usage scenarios), a bare number, a class, the     *)
(* modifier an attach_* call returns, or None.                             *)
(***************************************************************************)
Types == {"A", "B"}

Wrapped(cls, x) == [kind |-> "Wrapped", cls |-> cls, value |-> x]
Raw(x) == [kind |-> "raw", cls |-> "-", value |-> x]
ClassObj(cls) == [kind |-> "class", cls |-> cls, value |-> NoNum]
ModifierObj == [kind |-> "modifier", cls |-> "-", value |-> NoNum]
NoneObj == [kind |-> "None", cls |-> "-", value |-> NoNum]

Return(obj) == [exc |-> "none", ret |-> obj]
Raise(e) == [exc |-> e, ret |-> NoneObj]

\* the values operands are drawn from
Operands == (-MaxOperand) .. MaxOperand

(***************************************************************************)
(* The functions a config names under 'func': a NumPy ufunc, or a lambda   *)
(* x, y: np.<ufunc>(y, x) (swap).                                          *)
(***************************************************************************)
Np(u) == [ufunc |-> u, swap |-> FALSE]

\* lambda x, y: np.<u>(y, x): only two positional arguments bind
Lambda_yx(u) == [ufunc |-> u, swap |-> TRUE]

\* func(*args), args a sequence of integers
CallFunc(func, args) ==
    IF func.swap
    THEN IF Len(args) = 2 THEN Ufunc(func.ufunc, <<args[2], args[1]>>)
         ELSE Raises("TypeError")
    ELSE Ufunc(func.ufunc, args)

Entry(name, settings) == <<name, settings>>

\* the binary config with every reflected method given the plain ufunc
BinaryMagicConfigUnswapped ==
    << Entry("__eq__", [func |-> Np("equal")]),
       Entry("__ne__", [func |-> Np("not_equal")]),
       Entry("__lt__", [func |-> Np("less")]),
       Entry("__gt__", [func |-> Np("greater")]),
       Entry("__le__", [func |-> Np("less_equal")]),
       Entry("__ge__", [func |-> Np("greater_equal")]),
       Entry("__add__", [func |-> Np("add")]),
       Entry("__sub__", [func |-> Np("subtract")]),
       Entry("__mul__", [func |-> Np("multiply")]),
       Entry("__pow__", [func |-> Np("power")]),
       Entry("__mod__", [func |-> Np("mod")]),
       Entry("__floordiv__", [func |-> Np("floor_divide")]),
       Entry("__truediv__", [func |-> Np("true_divide")]),
       Entry("__radd__", [func |-> Np("add")]),
       Entry("__rsub__", [func |-> Np("subtract")]),
       Entry("__rmul__", [func |-> Np("multiply")]),
       Entry("__rpow__", [func |-> Np("power")]),
       Entry("__rmod__", [func |-> Np("mod")]),
       Entry("__rfloordiv__", [func |-> Np("floor_divide")]),
       Entry("__rtruediv__", [func |-> Np("true_divide")]),
       Entry("__and__", [func |-> Np("bitwise_and")]),
       Entry("__or__", [func |-> Np("bitwise_or")]),
       Entry("__xor__", [func |-> Np("bitwise_xor")]),
       Entry("__rand__", [func |-> Np("bitwise_and")]),
       Entry("__ror__", [func |-> Np("bitwise_or")]),
       Entry("__rxor__", [func |-> Np("bitwise_xor")]) >>

\* magic_decorators.py:15: an ordered mapping, as the sequence of its items
BinaryMagicConfig ==
    << Entry("__eq__", [func |-> Np("equal")]),
       Entry("__ne__", [func |-> Np("not_equal")]),
       Entry("__lt__", [func |-> Np("less")]),
       Entry("__gt__", [func |-> Np("greater")]),
       Entry("__le__", [func |-> Np("less_equal")]),
       Entry("__ge__", [func |-> Np("greater_equal")]),
       Entry("__add__", [func |-> Np("add")]),
       Entry("__sub__", [func |-> Np("subtract")]),
       Entry("__mul__", [func |-> Np("multiply")]),
       Entry("__pow__", [func |-> Np("power")]),
       Entry("__mod__", [func |-> Np("mod")]),
       Entry("__floordiv__", [func |-> Np("floor_divide")]),
       Entry("__truediv__", [func |-> Np("true_divide")]),
       Entry("__radd__", [func |-> Lambda_yx("add")]),
       Entry("__rsub__", [func |-> Lambda_yx("subtract")]),
       Entry("__rmul__", [func |-> Lambda_yx("multiply")]),
       Entry("__rpow__", [func |-> Lambda_yx("power")]),
       Entry("__rmod__", [func |-> Lambda_yx("mod")]),
       Entry("__rfloordiv__", [func |-> Lambda_yx("floor_divide")]),
       Entry("__rtruediv__", [func |-> Lambda_yx("true_divide")]),
       Entry("__and__", [func |-> Np("bitwise_and")]),
       Entry("__or__", [func |-> Np("bitwise_or")]),
       Entry("__xor__", [func |-> Np("bitwise_xor")]),
       Entry("__rand__", [func |-> Lambda_yx("bitwise_and")]),
       Entry("__ror__", [func |-> Lambda_yx("bitwise_or")]),
       Entry("__rxor__", [func |-> Lambda_yx("bitwise_xor")]) >>

\* the unary config with the functions of __neg__ and __pos__ exchanged
UnaryMagicConfigExchanged ==
    << Entry("__neg__", [func |-> Np("positive")]),
       Entry("__pos__", [func |-> Np("negative")]),
       Entry("__abs__", [func |-> Np("absolute")]),
       Entry("__invert__", [func |-> Np("invert")]) >>

\* magic_decorators.py:97
UnaryMagicConfig ==
    << Entry("__neg__", [func |-> Np("negative")]),
       Entry("__pos__", [func |-> Np("positive")]),
       Entry("__abs__", [func |-> Np("absolute")]),
       Entry("__invert__", [func |-> Np("invert")]) >>

\* config.keys(), and config[name] for a name among them
Keys(config) == {config[i][1] : i \in 1 .. Len(config)}
Get(config, name) == config[CHOOSE i \in 1 .. Len(config) : config[i][1] = name][2]

(***************************************************************************)
(* The configs and translate functions callers pass.                       *)
(***************************************************************************)
\* config=None: the default of the attach_* function is used
NoConfig == [given |-> FALSE, items |-> << >>]
Given(items) == [given |-> TRUE, items |-> items]

\* {'combine': dict(func=np.add)}
CombineConfig == << Entry("combine", [func |-> Np("add")]) >>
\* a config whose second entry has no 'func'
BrokenLastConfig ==
    << Entry("combine", [func |-> Np("add")]), Entry("broken", [doc |-> "no func"]) >>
\* a config whose first entry has no 'func'
BrokenFirstConfig ==
    << Entry("broken", [doc |-> "no func"]), Entry("combine", [func |-> Np("add")]) >>

\* every entry has the 'func' key the docstrings require
HasFuncs(config) == \A i \in 1 .. Len(config) : "func" \in DOMAIN config[i][2]

\* the number of positional parameters of a translate function
TranslateArity(translate_func) ==
    CASE translate_func = "wrap2" -> 3
      [] translate_func = "wrap1" -> 2

\* the integer an operand holds
IntOf(obj) == obj.value.n

\* the result of a ufunc call, as the object the translate function returns
Lift(r, obj) == IF r.exc = "none" THEN Return(obj) ELSE Raise(r.exc)

\* translate_func(*args): the caller's translate functions
\*   wrap2(self, other, func) = type(self)(func(self.value, other.value))
\*   wrap1(self, func)        = type(self)(func(self.value))
\* a call with the wrong number of arguments raises TypeError, and reading
\* .value of a bare number raises AttributeError
CallTranslate(translate_func, args) ==
    IF Len(args) # TranslateArity(translate_func) THEN Raise("TypeError")
    ELSE CASE translate_func = "wrap2" ->
                 IF args[2].kind # "Wrapped" THEN Raise("AttributeError")
                 ELSE LET r == CallFunc(args[3], <<IntOf(args[1]), IntOf(args[2])>>)
                      IN Lift(r, Wrapped(args[1].cls, r.val))
           [] translate_func = "wrap1" ->
                 LET r == CallFunc(args[2], <<IntOf(args[1])>>)
                 IN Lift(r, Wrapped(args[1].cls, r.val))


(***************************************************************************)
(* The methods of a class.  A class's attribute dictionary maps a name to  *)
(* a method: one the class was written with ("user"), or a new_method      *)
(* installed by a wrapper, which holds the two defaults bound when it was  *)
(* defined and the names given to it.                                      *)
(***************************************************************************)
NoFunc == [ufunc |-> "-", swap |-> FALSE]

UserMethod(cls, name) ==
    [kind |-> "user", nargs |-> 0, _translate_func |-> "-", _func |-> NoFunc,
     __name__ |-> name]

\* new_method with the function of the config's last entry in place of its own
new_method_late(nargs, translate_func, func, config, cls, target_name) ==
    [kind |-> "new_method", nargs |-> nargs,
     _translate_func |-> translate_func,
     _func |-> LET done == {i \in 1 .. Len(config) :
                              \A j \in 1 .. i : "func" \in DOMAIN config[j][2]}
               IN config[CHOOSE i \in done : \A j \in done : j <= i][2].func,
     __name__ |-> target_name]

\* def new_method(self[, other], _translate_func=translate_func, _func=func),
\* with __name__ set to the target name (magic_decorators.py:83-90, 141-147);
\* nargs counts self and other, config is the config of the enclosing wrapper
new_method(nargs, translate_func, func, config, cls, target_name) ==
    [kind |-> "new_method", nargs |-> nargs,
     _translate_func |-> translate_func,
     _func |-> func,
     __name__ |-> target_name]

\* a body that turns every failure of the translate function into NotImplemented
CallMethodGuarded(method, args) ==
    LET r == IF method.nargs = 2
             THEN CallTranslate(method._translate_func, <<args[1], args[2], method._func>>)
             ELSE CallTranslate(method._translate_func, <<args[1], method._func>>)
    IN IF r.exc = "none" THEN r ELSE Raise("NotImplementedError")

\* the body of new_method, called with self (and other) only:
\*   return _translate_func(self, other, _func)    (magic_decorators.py:87)
\*   return _translate_func(self, _func)           (magic_decorators.py:144)
CallMethod(method, args) ==
    IF method.nargs = 2
    THEN CallTranslate(method._translate_func, <<args[1], args[2], method._func>>)
    ELSE CallTranslate(method._translate_func, <<args[1], method._func>>)

\* setattr that removes an attribute already there instead of overwriting it
setattr_toggle(dict, name, value) ==
    IF name \in DOMAIN dict
    THEN [n \in DOMAIN dict \ {name} |-> dict[n]]
    ELSE [n \in DOMAIN dict \cup {name} |-> IF n = name THEN value ELSE dict[n]]

\* setattr that rebinds every method installed earlier to the new translate function
setattr_shared(dict, name, value) ==
    [n \in DOMAIN dict \cup {name} |->
        IF n = name THEN value
        ELSE IF dict[n].kind = "new_method"
             THEN [dict[n] EXCEPT !._translate_func = value._translate_func]
             ELSE dict[n]]

\* setattr(cls, target_name, new_method) on the dictionary of cls
setattr(dict, name, value) ==
    [n \in DOMAIN dict \cup {name} |-> IF n = name THEN value ELSE dict[n]]

\* wrapper that installs on every class
wrapper_all(mod, cls, clss) ==
    LET RECURSIVE Loop(_, _)
        Loop(i, dict) ==
            IF i > Len(mod.config) THEN [dict |-> dict, exc |-> "none"]
            ELSE IF "func" \notin DOMAIN mod.config[i][2]
                 THEN [dict |-> dict, exc |-> "KeyError"]
                 ELSE Loop(i + 1, setattr(dict, mod.config[i][1],
                                   new_method(mod.nargs, mod.translate_func,
                                              mod.config[i][2].func, mod.config,
                                              cls, mod.config[i][1])))
        exc == Loop(1, clss[cls]).exc
    IN [classes |-> [c \in DOMAIN clss |-> Loop(1, clss[c]).dict],
        exc |-> exc,
        ret |-> IF exc = "none" THEN ClassObj(cls) ELSE NoneObj]

\* wrapper(cls) of a modifier (magic_decorators.py:79-92, 137-149): the loop
\* over config.items(); settings['func'] raises KeyError on an entry without
\* it, leaving what the earlier iterations installed
wrapper(mod, cls, clss) ==
    LET RECURSIVE Loop(_, _)
        Loop(i, dict) ==
            IF i > Len(mod.config) THEN [dict |-> dict, exc |-> "none"]
            ELSE IF "func" \notin DOMAIN mod.config[i][2]
                 THEN [dict |-> dict, exc |-> "KeyError"]
                 ELSE Loop(i + 1, setattr(dict, mod.config[i][1],
                                   new_method(mod.nargs, mod.translate_func,
                                              mod.config[i][2].func, mod.config,
                                              cls, mod.config[i][1])))
        r == Loop(1, clss[cls])
    IN [classes |-> [clss EXCEPT ![cls] = r.dict],
        exc |-> r.exc,
        ret |-> IF r.exc = "none" THEN ClassObj(cls) ELSE NoneObj]

\* instance.name(*rest): the method is looked up on the instance's class
CallAttr(clss, self, name, rest) ==
    IF name \notin DOMAIN clss[self.cls] THEN Raise("AttributeError")
    ELSE CallMethod(clss[self.cls][name], <<self>> \o rest)

NoModifier == [made |-> FALSE, nargs |-> 0, translate_func |-> "-", config |-> << >>]

\* attach_binary_magic_methods(translate_func, config) (magic_decorators.py:61-94):
\* nothing is checked; the wrapper closes over translate_func and the config
attach_binary_magic_methods(translate_func, config) ==
    [made |-> TRUE, nargs |-> 2, translate_func |-> translate_func,
     config |-> IF config.given THEN config.items ELSE binary_magic_config]

\* attach_unary_magic_methods(translate_func, config) (magic_decorators.py:119-151)
attach_unary_magic_methods(translate_func, config) ==
    [made |-> TRUE, nargs |-> 1, translate_func |-> translate_func,
     config |-> IF config.given THEN config.items ELSE unary_magic_config]


(***************************************************************************)
(* The decorators: state and calls.                                        *)
(***************************************************************************)
\* the calls of attach_binary_magic_methods the callers make
BinaryCalls ==
    { [translate_func |-> "wrap2", config |-> NoConfig],
      [translate_func |-> "wrap2", config |-> Given(CombineConfig)],
      [translate_func |-> "wrap1", config |-> Given(CombineConfig)],
      [translate_func |-> "wrap2", config |-> Given(BrokenLastConfig)],
      [translate_func |-> "wrap2", config |-> Given(BrokenFirstConfig)] }

\* the calls of attach_unary_magic_methods the callers make
UnaryCalls ==
    { [translate_func |-> "wrap1", config |-> NoConfig],
      [translate_func |-> "wrap1", config |-> Given(BrokenLastConfig)] }

Call(op, cls, name, args, out, mod, before) ==
    [op |-> op, cls |-> cls, name |-> name, args |-> args,
     exc |-> out.exc, ret |-> out.ret, modifier |-> mod, before |-> before]

\* the classes as written: A defines __add__ by hand, B does not
InitClasses ==
    [c \in Types |->
        IF c = "A"
        THEN ("__init__" :> UserMethod(c, "__init__")) @@ ("__add__" :> UserMethod(c, "__add__"))
        ELSE ("__init__" :> UserMethod(c, "__init__"))]

AnimIdle ==
    /\ pc = "idle"
    /\ index = << >>
    /\ delta = [given |-> FALSE, n |-> 0]
    /\ step = 1
    /\ todo = << >>
    /\ frames = << >>
    /\ error = "none"

MagicIdle ==
    /\ binary_magic_config = BinaryMagicConfig
    /\ unary_magic_config = UnaryMagicConfig
    /\ classes = InitClasses
    /\ modifier = NoModifier
    /\ last = Call("import", "-", "-", << >>, Return(NoneObj), NoModifier, InitClasses)

Init ==
    /\ MagicIdle
    /\ AnimIdle

\* modifier = attach_binary_magic_methods(translate_func, config)
AttachBinary ==
    /\ ~modifier.made
    /\ \E c \in BinaryCalls :
        LET mod == attach_binary_magic_methods(c.translate_func, c.config)
        IN /\ modifier' = mod
           /\ last' = Call("attach_binary_magic_methods", "-", "-", << >>,
                           Return(ModifierObj), mod, InitClasses)
    /\ UNCHANGED <<binary_magic_config, unary_magic_config, classes>>
    /\ UNCHANGED animVars

\* modifier = attach_unary_magic_methods(translate_func, config)
AttachUnary ==
    /\ ~modifier.made
    /\ \E c \in UnaryCalls :
        LET mod == attach_unary_magic_methods(c.translate_func, c.config)
        IN /\ modifier' = mod
           /\ last' = Call("attach_unary_magic_methods", "-", "-", << >>,
                           Return(ModifierObj), mod, InitClasses)
    /\ UNCHANGED <<binary_magic_config, unary_magic_config, classes>>
    /\ UNCHANGED animVars

\* modifier(cls): the modifier just built is applied to a class, as a decorator is
Apply(cls) ==
    /\ modifier.made
    /\ LET r == wrapper(modifier, cls, classes)
       IN /\ classes' = r.classes
          /\ last' = Call("wrapper", cls, "-", << >>, r, modifier, classes)
    /\ modifier' = NoModifier
    /\ UNCHANGED <<binary_magic_config, unary_magic_config>>
    /\ UNCHANGED animVars

\* the names of the methods wrappers installed on cls
Installed(clss, cls) ==
    {n \in DOMAIN clss[cls] : clss[cls][n].kind = "new_method"}

\* what a method of nargs operands is called with besides self: for a binary
\* method an instance of either class or a bare number, else nothing
Rests(nargs) ==
    IF nargs = 2
    THEN {<<Wrapped(c, Int_(b))>> : c \in Types, b \in Operands}
             \cup {<<Raw(Int_(b))>> : b \in Operands}
    ELSE {<< >>}

\* instance.name(other) or instance.name(): a method the wrapper has just
\* installed is called on an instance of the decorated class
Invoke ==
    /\ last.op = "wrapper"
    /\ \E name \in Keys(last.modifier.config) \cap Installed(classes, last.cls) :
        \E a \in Operands :
            \E rest \in Rests(classes[last.cls][name].nargs) :
                LET self == Wrapped(last.cls, Int_(a))
                IN last' = Call("call", last.cls, name, <<self>> \o rest,
                                CallAttr(classes, self, name, rest), NoModifier, InitClasses)
    /\ UNCHANGED <<binary_magic_config, unary_magic_config, classes, modifier>>
    /\ UNCHANGED animVars

\* classes are decorated
Next == AttachBinary \/ AttachUnary \/ (\E cls \in Types : Apply(cls))

Spec == Init /\ [][Next]_vars

\* one class is decorated and the methods installed on it are called
NextCall == AttachBinary \/ AttachUnary \/ Apply("A") \/ Invoke

SpecCall == Init /\ [][NextCall]_vars


(***************************************************************************)
(* image_.save_animation(fname, index, plot_func, delta=None, step=1).     *)
(***************************************************************************)
\* range(start, stop, step) for step > 0, as the sequence of its values
Range(start, stop, stp) ==
    LET count == IF stop <= start THEN 0 ELSE ((stop - start - 1) \div stp) + 1
    IN [k \in 1 .. count |-> start + (k - 1) * stp]

\* the range with its stop moved one further
LoopRangeInclusive(n, dlt, stp) == Range(0, n - dlt + 1, stp)

\* range(0, len(index) - delta, step) (image_.py:79)
LoopRange(n, dlt, stp) == Range(0, n - dlt, stp)

\* seq[k] of Python for an integer k: negative k counts from the end
InRange(seq, k) == -Len(seq) <= k /\ k < Len(seq)

\* seq[lo:hi] of Python for 0 <= lo: the slice is clipped to the sequence
Slice(seq, lo, hi) ==
    LET top == IF hi > Len(seq) THEN Len(seq) ELSE hi
    IN IF top <= lo THEN << >> ELSE [k \in 1 .. top - lo |-> seq[lo + k]]

\* what plot_func returns: a Plotly figure, a NumPy array, or an image
\* imageio.imread can read
FigKinds == {"Figure", "ndarray", "uri"}

\* image_.py:83-86: a figure is rendered to PNG bytes, and whatever is not an
\* array is read by imageio.imread into one
ToArray(fig) ==
    LET png == IF fig.kind = "Figure" THEN [fig EXCEPT !.kind = "png"] ELSE fig
    IN IF png.kind # "ndarray" THEN [png EXCEPT !.kind = "ndarray"] ELSE png

\* a call save_animation(fname, index, plot_func, delta=delta, step=step)
InitAnim ==
    /\ MagicIdle
    /\ pc = "start"
    /\ \E n \in 0 .. MaxLen : index = [j \in 1 .. n |-> 10 * j]
    /\ delta \in {[given |-> FALSE, n |-> 0]}
                 \cup {[given |-> TRUE, n |-> d] : d \in 0 .. MaxLen + 1}
    /\ step \in 0 .. MaxStep
    /\ todo = << >>
    /\ frames = << >>
    /\ error = "none"

\* image_.py:75-79: delta defaults to len(index) // 2, the writer is opened
\* and the range is built; range() raises ValueError for a step of 0
Start ==
    /\ pc = "start"
    /\ LET d == IF delta.given THEN delta.n ELSE Len(index) \div 2
       IN /\ delta' = [given |-> TRUE, n |-> d]
          /\ IF step = 0
             THEN /\ pc' = "raised"
                  /\ error' = "ValueError"
                  /\ todo' = << >>
             ELSE /\ pc' = "loop"
                  /\ error' = error
                  /\ todo' = LoopRange(Len(index), d, step)
    /\ UNCHANGED <<index, step, frames>>
    /\ UNCHANGED magicVars

\* image_.py:80-87: one iteration: the description reads index[i] and
\* index[i + delta - 1], plot_func draws index[i:i + delta], and the frame is
\* appended to the writer
Frame ==
    /\ pc = "loop"
    /\ todo # << >>
    /\ LET i == Head(todo)
       IN IF ~(InRange(index, i) /\ InRange(index, i + delta.n - 1))
          THEN /\ pc' = "raised"
               /\ error' = "IndexError"
               /\ UNCHANGED <<todo, frames>>
          ELSE /\ \E kind \in FigKinds :
                    LET fig == [kind |-> kind, window |-> Slice(index, i, i + delta.n)]
                    IN frames' = Append(frames, ToArray(fig))
               /\ todo' = Tail(todo)
               /\ UNCHANGED <<pc, error>>
    /\ UNCHANGED <<index, delta, step>>
    /\ UNCHANGED magicVars

\* image_.py:88: the range is exhausted, the bar and the writer are closed
Close ==
    /\ pc = "loop"
    /\ todo = << >>
    /\ pc' = "done"
    /\ UNCHANGED <<index, delta, step, todo, frames, error>>
    /\ UNCHANGED magicVars

NextAnim == Start \/ Frame \/ Close

SpecAnim == InitAnim /\ [][NextAnim]_vars


(***************************************************************************)
(* Properties of the decorators (Spec).                                    *)
(***************************************************************************)
\* the instances and further arguments the properties quantify over
Selves(cls) == {Wrapped(cls, Int_(a)) : a \in Operands}
\* a wrapper call has just returned normally
Applied == last.op = "wrapper" /\ last.exc = "none"

\* C1: after a modifier of attach_binary_magic_methods(translate, config) was
\* applied to a class, every key k of the config, called as k(self, other),
\* returns what translate(self, other, config[k]['func']) returns (or raises
\* what it raises), for all operands: each method uses the function of its
\* own key.
C1_BinaryMethodUsesOwnFunc ==
    (Applied /\ last.modifier.nargs = 2) =>
        \A k \in Keys(last.modifier.config) :
            \A self \in Selves(last.cls) :
                \A rest \in Rests(2) :
                    CallAttr(classes, self, k, rest)
                        = CallTranslate(last.modifier.translate_func,
                                        <<self>> \o rest \o <<Get(last.modifier.config, k).func>>)

\* C1 witness: after the default binary config was attached, A(1) - A(-1) was
\* evaluated and gave A(2), while the config's last entry is another function
C1_Witness ==
    /\ last.op = "call"
    /\ last.name = "__sub__"
    /\ last.args = <<Wrapped("A", Int_(1)), Wrapped("A", Int_(-1))>>
    /\ last.exc = "none"
    /\ last.ret = Wrapped("A", Int_(2))
    /\ classes["A"]["__sub__"]._func # classes["A"]["__rxor__"]._func

\* C2 (as claimed): a wrapper call on a config with an entry lacking 'func',
\* wherever the entry stands, raises and leaves every class with the
\* attributes it had before the call.
C2_MissingFuncLeavesClassUntouched ==
    (last.op = "wrapper" /\ ~HasFuncs(last.modifier.config)) =>
        /\ last.exc # "none"
        /\ classes = last.before

\* C3 (as claimed): no modifier is ever returned for a config with an entry
\* lacking 'func' or for a translate function of the wrong arity.
C3_NoModifierForMisconfiguration ==
    modifier.made =>
        /\ HasFuncs(modifier.config)
        /\ TranslateArity(modifier.translate_func) = modifier.nargs + 1

\* the attach_* calls that install name: their number of operands, translate
\* function and the function of the name's entry
Origins(name) ==
    {[nargs |-> 2, translate_func |-> c.translate_func,
      func |-> Get(attach_binary_magic_methods(c.translate_func, c.config).config, name).func] :
        c \in {d \in BinaryCalls :
                LET cfg == attach_binary_magic_methods(d.translate_func, d.config).config
                IN name \in Keys(cfg) /\ "func" \in DOMAIN Get(cfg, name)}}
    \cup
    {[nargs |-> 1, translate_func |-> c.translate_func,
      func |-> Get(attach_unary_magic_methods(c.translate_func, c.config).config, name).func] :
        c \in {d \in UnaryCalls :
                LET cfg == attach_unary_magic_methods(d.translate_func, d.config).config
                IN name \in Keys(cfg) /\ "func" \in DOMAIN Get(cfg, name)}}

\* C4: a wrapper call whose config does not contain k leaves the method
\* installed under k with the results it had before the call, for all operands
\* (so k keeps its behaviour under any sequence of such calls); and after the
\* call the method under k still holds the translate function of one
\* attachment together with the function that attachment's config gives for
\* k, never a mix of two attachments.
C4_InstalledMethodKeepsBehaviour ==
    last.op = "wrapper" =>
        /\ \A k \in Installed(last.before, last.cls) \ Keys(last.modifier.config) :
            /\ k \in Installed(classes, last.cls)
            /\ \A self \in Selves(last.cls) :
                \A rest \in Rests(last.before[last.cls][k].nargs) :
                    CallAttr(classes, self, k, rest) = CallAttr(last.before, self, k, rest)
        /\ \A k \in Installed(classes, last.cls) \ Keys(last.modifier.config) :
            \E o \in Origins(k) :
                /\ classes[last.cls][k].nargs = o.nargs
                /\ classes[last.cls][k]._translate_func = o.translate_func
                /\ classes[last.cls][k]._func = o.func

\* C4 witness: the default unary config was attached, with another translate
\* function, to a class A that had __sub__ from the binary config, and
\* A(1).__sub__(A(-1)) still gives A(2)
C4_Witness ==
    /\ Applied
    /\ last.cls = "A"
    /\ last.modifier.nargs = 1
    /\ last.modifier.config = unary_magic_config
    /\ "__sub__" \in Installed(last.before, "A")
    /\ last.before["A"]["__sub__"]._translate_func # last.modifier.translate_func
    /\ CallAttr(classes, Wrapped("A", Int_(1)), "__sub__", <<Wrapped("A", Int_(-1))>>)
           = Return(Wrapped("A", Int_(2)))

\* C5: after a modifier of attach_unary_magic_methods(translate, config) was
\* applied to a class, every key k of the config, called as k(self), returns
\* what translate(self, config[k]['func']) returns; with the default unary
\* config and a translate function that unwraps .value and rewraps the
\* result, -Wrapped(5) is Wrapped(-5).
C5_UnaryMethodUsesOwnFunc ==
    (Applied /\ last.modifier.nargs = 1) =>
        /\ \A k \in Keys(last.modifier.config) :
            \A self \in Selves(last.cls) \cup {Wrapped(last.cls, Int_(5))} :
                CallAttr(classes, self, k, << >>)
                    = CallTranslate(last.modifier.translate_func,
                                    <<self, Get(last.modifier.config, k).func>>)
        /\ (last.modifier.config = unary_magic_config
                /\ last.modifier.translate_func = "wrap1") =>
               CallAttr(classes, Wrapped(last.cls, Int_(5)), "__neg__", << >>)
                   = Return(Wrapped(last.cls, Int_(-5)))

\* C5 witness: the default unary config is attached to A, -A(1) was evaluated
\* and gave A(-1), and -A(5) gives A(-5)
C5_Witness ==
    /\ last.op = "call"
    /\ last.name = "__neg__"
    /\ last.args = <<Wrapped("A", Int_(1))>>
    /\ last.ret = Wrapped("A", Int_(-1))
    /\ CallAttr(classes, Wrapped("A", Int_(5)), "__neg__", << >>)
           = Return(Wrapped("A", Int_(-5)))

\* the reflected methods of the binary config, each with its plain method
Reflected ==
    {<<"__radd__", "__add__">>, <<"__rsub__", "__sub__">>, <<"__rmul__", "__mul__">>,
     <<"__rpow__", "__pow__">>, <<"__rmod__", "__mod__">>,
     <<"__rfloordiv__", "__floordiv__">>, <<"__rtruediv__", "__truediv__">>,
     <<"__rand__", "__and__">>, <<"__ror__", "__or__">>, <<"__rxor__", "__xor__">>}

\* C6: in the default binary config the function of every reflected method is
\* the function of the plain method with its two arguments swapped, and once
\* the config is attached a.reflected(b) is the plain function applied to
\* (b, a), wrapped by the translate function.
C6_ReflectedIsSwapped ==
    (Applied /\ last.modifier.config = binary_magic_config
             /\ last.modifier.translate_func = "wrap2") =>
        \A p \in Reflected :
            \A x \in Operands :
                \A y \in Operands :
                    LET plain == CallFunc(Get(binary_magic_config, p[2]).func, <<y, x>>)
                    IN /\ CallFunc(Get(binary_magic_config, p[1]).func, <<x, y>>) = plain
                       /\ CallAttr(classes, Wrapped(last.cls, Int_(x)), p[1],
                                   <<Wrapped(last.cls, Int_(y))>>)
                              = Lift(plain, Wrapped(last.cls, plain.val))

\* C6 witness: A(1).__rsub__(A(-1)) was evaluated and gave A(-1 - 1)
C6_Witness ==
    /\ last.op = "call"
    /\ last.name = "__rsub__"
    /\ last.args = <<Wrapped("A", Int_(1)), Wrapped("A", Int_(-1))>>
    /\ last.ret = Wrapped("A", Int_(-2))

\* C7: a wrapper call on class A that returns, returns A; and any wrapper call
\* on A changes only attributes of A named by keys of the config: A's other
\* attributes, every attribute of the other classes and the two default
\* configs are what they were.
C7_OnlyConfigKeysOfTargetChange ==
    last.op = "wrapper" =>
        /\ last.exc = "none" => last.ret = ClassObj(last.cls)
        /\ \A c \in Types \ {last.cls} : classes[c] = last.before[c]
        /\ DOMAIN classes[last.cls]
              \subseteq DOMAIN last.before[last.cls] \cup Keys(last.modifier.config)
        /\ \A n \in DOMAIN last.before[last.cls] \ Keys(last.modifier.config) :
              /\ n \in DOMAIN classes[last.cls]
              /\ classes[last.cls][n] = last.before[last.cls][n]
        /\ binary_magic_config = BinaryMagicConfig
        /\ unary_magic_config = UnaryMagicConfig

\* C7 witness: the binary config was attached to A, which changed, while A
\* kept __init__ and __neg__ and B kept the methods installed on it
C7_Witness ==
    /\ Applied
    /\ last.cls = "A"
    /\ last.modifier.config = binary_magic_config
    /\ classes["A"] # last.before["A"]
    /\ "__neg__" \in Installed(classes, "A")
    /\ classes["A"]["__init__"].kind = "user"
    /\ Installed(classes, "B") # {}

\* every key of the modifier's config is bound on cls to the method an
\* attachment of this modifier installs
Attached(clss, cls, mod) ==
    \A k \in Keys(mod.config) :
        /\ k \in Installed(clss, cls)
        /\ clss[cls][k].nargs = mod.nargs
        /\ clss[cls][k]._translate_func = mod.translate_func
        /\ clss[cls][k]._func = Get(mod.config, k).func

\* C8: attaching a config with a translate function to a class that already
\* has this config attached with this translate function leaves the class as
\* one attachment left it: the same attribute names, and every method gives
\* the same results for all operands.
C8_SecondAttachmentChangesNothing ==
    (Applied /\ Attached(last.before, last.cls, last.modifier)) =>
        /\ DOMAIN classes[last.cls] = DOMAIN last.before[last.cls]
        /\ Attached(classes, last.cls, last.modifier)
        /\ \A k \in Installed(classes, last.cls) :
            \A self \in Selves(last.cls) :
                \A rest \in Rests(classes[last.cls][k].nargs) :
                    CallAttr(classes, self, k, rest) = CallAttr(last.before, self, k, rest)

\* C8 witness: the default binary config was attached to a class that had it
\* attached already
C8_Witness ==
    /\ Applied
    /\ last.modifier.config = binary_magic_config
    /\ Attached(last.before, last.cls, last.modifier)

\* C9: a call of an installed method ends as the call of the translate
\* function it makes ends: with the same exception when the translate
\* function or the function under 'func' raises, and with no exception of
\* its own otherwise.
C9_FailurePropagatesUnchanged ==
    last.op = "call" =>
        LET m == classes[last.cls][last.name]
            direct == CallTranslate(m._translate_func, last.args \o <<m._func>>)
        IN /\ last.exc = direct.exc
           /\ direct.exc # "none" => last.ret = NoneObj

\* C9 witness: A(1) ** A(-1) raised the ValueError np.power raises for a
\* negative integer exponent
C9_Witness ==
    /\ last.op = "call"
    /\ last.name = "__pow__"
    /\ last.args = <<Wrapped("A", Int_(1)), Wrapped("A", Int_(-1))>>
    /\ last.exc = "ValueError"


(***************************************************************************)
(* Properties of save_animation (SpecAnim).                                *)
(***************************************************************************)
\* the arguments the property covers: step >= 1 and 1 <= delta <= len(index),
\* delta being the argument or its default len(index) // 2
Covered ==
    /\ pc # "start"
    /\ step >= 1
    /\ 1 <= delta.n
    /\ delta.n <= Len(index)

\* C10: for step >= 1 and 1 <= delta <= len(index), the call does not raise
\* and the frames appended to the writer are, in increasing order of i, one
\* array per i in {0, step, 2*step, ...} with i < len(index) - delta, made
\* from the window index[i:i + delta]; every window has delta elements and
\* ends at a position no greater than len(index) - 2, and nothing is appended
\* when delta = len(index).
C10_FramesAreTheWindows ==
    Covered =>
        LET n == Len(index)
            d == delta.n
            starts == {i \in 0 .. n : i % step = 0 /\ i < n - d}
        IN /\ pc \in {"loop", "done"}
           /\ error = "none"
           /\ Len(frames) <= Cardinality(starts)
           /\ pc = "done" => Len(frames) = Cardinality(starts)
           /\ \A k \in 1 .. Len(frames) :
                LET i == (k - 1) * step
                IN /\ i \in starts
                   /\ frames[k].kind = "ndarray"
                   /\ frames[k].window = [j \in 1 .. d |-> index[i + j]]
                   /\ Len(frames[k].window) = d
                   /\ i + d - 1 <= n - 2
           /\ d = n => frames = << >>

\* C10 witness: a finished call on an index of 4 with delta 1 and step 2,
\* which appended the windows at i = 0 and i = 2
C10_Witness ==
    /\ pc = "done"
    /\ Len(index) = 4
    /\ step = 2
    /\ delta.n = 1
    /\ Len(frames) = 2
    /\ frames[2].window = <<index[3]>>

=============================================================================
